---- MODULE Spec2Model ----
(***************************************************************************)
(* Model of packages/promptable/src/steps/Step.ts: the abstract Step       *)
(* class, its call history (calls), the run lifecycle, output-key          *)
(* remapping, call recording and serialization.                            *)
(*                                                                         *)
(* A JavaScript object (an input record, an output record, the metadata    *)
(* returned by _serialize) is an ORDERED record: a sequence of <<key,      *)
(* value>> pairs with distinct keys, in property insertion order, which is *)
(* the order Object.entries and the spread operator follow for non-numeric *)
(* keys.                                                                   *)
(***************************************************************************)
EXTENDS Integers, Sequences, FiniteSets, TLC

\* ---- bounds -------------------------------------------------------------
MaxLen == 2      \* most keys in a delegated output record
MaxVal == 2      \* field values are 1..MaxVal
MaxRuns == 2     \* run invocations on one step instance
MaxCalls == 3    \* most records in the call history

Vals == 1..MaxVal

\* ---- ordered records ----------------------------------------------------
KeysOf(rec) == {rec[i][1] : i \in DOMAIN rec}

Get(rec, k) == rec[CHOOSE i \in DOMAIN rec : rec[i][1] = k][2]

\* obj[k] = v : an existing property keeps its position, a new one goes last
SetKey(rec, k, v) ==
    IF k \in KeysOf(rec)
    THEN [i \in DOMAIN rec |-> IF rec[i][1] = k THEN <<k, v>> ELSE rec[i]]
    ELSE Append(rec, <<k, v>>)

\* { ...a, ...b }
RECURSIVE Spread(_, _)
Spread(a, b) ==
    IF b = <<>> THEN a
    ELSE Spread(SetKey(a, b[1][1], b[1][2]), Tail(b))

\* all ordered records with keys in K, values in V and at most n keys
Records(K, V, n) ==
    UNION {{s \in [1..m -> K \X V] :
               \A i, j \in 1..m : i # j => s[i][1] # s[j][1]} : m \in 0..n}

\* ---- the step's fields ----------------------------------------------------
VARIABLES name, outputMap, inputsSchema, outputsSchema, calls, inv, ret

vars == <<name, outputMap, inputsSchema, outputsSchema, calls, inv, ret>>

Names == {"greet"}

\* keys the delegated computation may produce; "constructor" is a key every
\* plain object inherits from Object.prototype
OutKeys == {"a", "b", "constructor"}
InKeys == {"a", "x"}
\* target names of an output map; "" is a string that is falsy
Targets == {"a", "b", "x", ""}
MapKeys == {"a", "b"}

\* String(Object): the property name that the inherited value of
\* outputMap["constructor"] turns into when used as a key
ObjectCtorKey == "function Object() { [native code] }"
InheritedKeys == {"constructor"}

\* outputMap: undefined, or an object with own properties map
NoOutputMap == [defined |-> FALSE, map |-> <<>>]
OutputMaps ==
    {NoOutputMap} \cup
    {[defined |-> TRUE, map |-> m] :
        m \in UNION {[D -> Targets] : D \in SUBSET MapKeys}}

InputRecords == Records(InKeys, Vals, MaxLen)
OutputRecords == Records(OutKeys, Vals, MaxLen)

\* ---- preprocess / postprocess / mapOutputs --------------------------------
\* validation switched on with a schema that keeps no field: a declared
\* schema changes what the delegated computation and the merge get
PreprocessParses(inputs) == IF inputsSchema = "undefined" THEN inputs ELSE <<>>

Preprocess(inputs) == inputs

\* a merge in the wrong order: input fields shadow output fields
PostprocessInputsWin(inputs, outputs) == Spread(outputs, inputs)

Postprocess(inputs, outputs) == Spread(inputs, outputs)

\* this.outputMap[key]: own property, else inherited, else undefined ("")
\* the result is the property name it would be used as, "" when falsy
Lookup(om, key) ==
    IF key \in DOMAIN om.map THEN om.map[key]
    ELSE IF key \in InheritedKeys THEN ObjectCtorKey
    ELSE ""

RECURSIVE MapEntries(_, _, _)
MapEntries(om, entries, mapped) ==
    IF entries = <<>> THEN mapped
    ELSE LET key == entries[1][1]
             value == entries[1][2]
         IN  IF Lookup(om, key) # ""
             THEN MapEntries(om, Tail(entries), SetKey(mapped, Lookup(om, key), value))
             ELSE MapEntries(om, Tail(entries), SetKey(mapped, key, value))

\* the value is written under the target name and under the original key too
MapOutputsKeepsOriginal(om, outputs) ==
    IF ~om.defined THEN outputs
    ELSE Spread(outputs, MapEntries(om, outputs, <<>>))

MapOutputs(om, outputs) ==
    IF ~om.defined THEN outputs
    ELSE MapEntries(om, outputs, <<>>)

\* ---- call records ----------------------------------------------------------
\* Partial<StepCall>: each field is absent (<<>>) or present (<<record>>)
EmptyCall == [inputs |-> <<>>, outputs |-> <<>>]

\* { ...args, ...prev }: fields of the record shadow the given fields
MergeCallPrevWins(prev, args) ==
    [inputs  |-> IF prev.inputs # <<>> THEN prev.inputs ELSE args.inputs,
     outputs |-> IF prev.outputs # <<>> THEN prev.outputs ELSE args.outputs]

\* { ...prev, ...args }
MergeCall(prev, args) ==
    [inputs  |-> IF args.inputs # <<>> THEN args.inputs ELSE prev.inputs,
     outputs |-> IF args.outputs # <<>> THEN args.outputs ELSE prev.outputs]

\* updatePrev ignored: every call pushes a new record
RecordCallAlwaysAppends(cs, args, updatePrev) ==
    [calls |-> Append(cs, MergeCall(EmptyCall, args)), threw |-> FALSE]

\* update mode on an empty history pushes the record instead of throwing
RecordCallUpdateOnEmptyAppends(cs, args, updatePrev) ==
    IF updatePrev /\ Len(cs) # 0
    THEN [calls |-> [cs EXCEPT ![Len(cs)] = MergeCall(cs[Len(cs)], args)],
          threw |-> FALSE]
    ELSE [calls |-> Append(cs, MergeCall(EmptyCall, args)), threw |-> FALSE]

\* update mode takes the last record off the history and never puts the
\* merged record back
RecordCallUpdatePops(cs, args, updatePrev) ==
    IF updatePrev
    THEN IF Len(cs) = 0
         THEN [calls |-> cs, threw |-> TRUE]
         ELSE [calls |-> SubSeq(cs, 1, Len(cs) - 1), threw |-> FALSE]
    ELSE [calls |-> Append(cs, MergeCall(EmptyCall, args)), threw |-> FALSE]

\* update mode patches the earliest record that has no outputs yet
RecordCallPatchesFirstOpen(cs, args, updatePrev) ==
    IF updatePrev
    THEN IF Len(cs) = 0
         THEN [calls |-> cs, threw |-> TRUE]
         ELSE LET open == {k \in 1..Len(cs) : cs[k].outputs = <<>>}
                  at == IF open = {} THEN Len(cs)
                        ELSE CHOOSE k \in open : \A m \in open : k <= m
              IN  [calls |-> [cs EXCEPT ![at] = MergeCall(cs[at], args)],
                   threw |-> FALSE]
    ELSE [calls |-> Append(cs, MergeCall(EmptyCall, args)), threw |-> FALSE]

\* append mode overwrites a last record that has no outputs yet
RecordCallAppendReplacesOpen(cs, args, updatePrev) ==
    IF updatePrev
    THEN IF Len(cs) = 0
         THEN [calls |-> cs, threw |-> TRUE]
         ELSE [calls |-> [cs EXCEPT ![Len(cs)] = MergeCall(cs[Len(cs)], args)],
               threw |-> FALSE]
    ELSE IF Len(cs) > 0 /\ cs[Len(cs)].outputs = <<>>
         THEN [calls |-> [cs EXCEPT ![Len(cs)] = MergeCall(EmptyCall, args)],
               threw |-> FALSE]
         ELSE [calls |-> Append(cs, MergeCall(EmptyCall, args)), threw |-> FALSE]

\* recordCall(args, updatePrev): the new history and whether it threw
RecordCall(cs, args, updatePrev) ==
    IF updatePrev
    THEN IF Len(cs) = 0
         THEN [calls |-> cs, threw |-> TRUE]
         ELSE [calls |-> [cs EXCEPT ![Len(cs)] = MergeCall(cs[Len(cs)], args)],
               threw |-> FALSE]
    ELSE [calls |-> Append(cs, MergeCall(EmptyCall, args)), threw |-> FALSE]

\* ---- run -------------------------------------------------------------------
Runs == 1..MaxRuns

IdleRun == [pc |-> "idle", args |-> <<>>, inputs |-> <<>>, outputs |-> <<>>,
            result |-> <<>>]

\* the last operation and what it gave back to its caller: value is "this",
\* "promise", "object", "undefined" or "error"; for serialize, meta is what
\* _serialize() returned and ser the object that serialize returned; for a
\* setter, schema is its argument; for recordCall, args is its first argument
Ret(op, updatePrev, threw, value, meta, ser) ==
    [op |-> op, updatePrev |-> updatePrev, threw |-> threw, value |-> value,
     meta |-> meta, ser |-> ser, schema |-> "undefined", args |-> EmptyCall]

NoRet == Ret("new", FALSE, FALSE, "this", <<>>, <<>>)

\* the records and output maps used where the call history is followed over
\* several invocations
RunInputs == {I \in InputRecords : Len(I) = 1 /\ KeysOf(I) \subseteq {"a"}}
RunOutputs == {O \in OutputRecords : Len(O) = 1 /\ KeysOf(O) \subseteq {"a"}}
StepOutputMaps ==
    {om \in OutputMaps :
        /\ DOMAIN om.map \subseteq {"a"}
        /\ \A k \in DOMAIN om.map : om.map[k] = "x"}

Schemas == {"s1", "s2"}

\* the smaller sample used where every operation interleaves freely
GenInputs == {I \in RunInputs : \A k \in KeysOf(I) : Get(I, k) = 1}
GenOutputs == {O \in RunOutputs : \A k \in KeysOf(O) : Get(O, k) = 1}
GenSchemas == {"s1"}

Constructed(maps) ==
    /\ name \in Names
    /\ outputMap \in maps
    /\ inputsSchema = "undefined"
    /\ outputsSchema = "undefined"
    /\ calls = <<>>
    /\ inv = [i \in Runs |-> IdleRun]
    /\ ret = NoRet

Init == Constructed(StepOutputMaps)

InitOne == Constructed(OutputMaps)

\* the input schema is stored in the output schema field
InputsSetsOutputsSchema(schema) ==
    /\ outputsSchema' = schema
    /\ ret' = [Ret("inputs", FALSE, FALSE, "this", <<>>, <<>>) EXCEPT !.schema = schema]
    /\ UNCHANGED <<name, outputMap, inputsSchema, calls, inv>>

\* inputs(schema)
Inputs(schema) ==
    /\ inputsSchema' = schema
    /\ ret' = [Ret("inputs", FALSE, FALSE, "this", <<>>, <<>>) EXCEPT !.schema = schema]
    /\ UNCHANGED <<name, outputMap, outputsSchema, calls, inv>>

\* the schema is stored in the output map field
OutputsSetsOutputMap(schema) ==
    /\ outputMap' = [defined |-> TRUE, map |-> <<>>]
    /\ ret' = Ret("outputs", FALSE, FALSE, "this", <<>>, <<>>)
    /\ UNCHANGED <<name, outputsSchema, inputsSchema, calls, inv>>

\* outputs(schema)
Outputs(schema) ==
    /\ outputsSchema' = schema
    /\ ret' = [Ret("outputs", FALSE, FALSE, "this", <<>>, <<>>) EXCEPT !.schema = schema]
    /\ UNCHANGED <<name, outputMap, inputsSchema, calls, inv>>

\* a run that finds a last record without outputs takes it over instead of
\* appending its own
RunStartReusesDangling(i, I) ==
    /\ inv[i].pc = "idle"
    /\ \A j \in Runs : j < i => inv[j].pc # "idle"
    /\ Len(calls) < MaxCalls
    /\ calls' = IF calls # <<>> /\ calls[Len(calls)].outputs = <<>>
                THEN [calls EXCEPT ![Len(calls)] = [inputs |-> <<I>>, outputs |-> <<>>]]
                ELSE Append(calls, [inputs |-> <<I>>, outputs |-> <<>>])
    /\ inv' = [inv EXCEPT ![i] = [pc |-> "awaiting", args |-> I,
                                  inputs |-> Preprocess(I),
                                  outputs |-> <<>>, result |-> <<>>]]
    /\ ret' = Ret("run", FALSE, FALSE, "promise", <<>>, <<>>)
    /\ UNCHANGED <<name, outputMap, inputsSchema, outputsSchema>>

\* run, up to the await of this._run(...)
RunStart(i, I) ==
    /\ inv[i].pc = "idle"
    /\ \A j \in Runs : j < i => inv[j].pc # "idle"
    /\ Len(calls) < MaxCalls
    /\ LET rc == RecordCall(calls, [inputs |-> <<I>>, outputs |-> <<>>], FALSE)
       IN  /\ calls' = rc.calls
           /\ inv' = [inv EXCEPT ![i] = [pc |-> "awaiting", args |-> I,
                                         inputs |-> Preprocess(I),
                                         outputs |-> <<>>, result |-> <<>>]]
    /\ ret' = Ret("run", FALSE, FALSE, "promise", <<>>, <<>>)
    /\ UNCHANGED <<name, outputMap, inputsSchema, outputsSchema>>

\* the result is built from the record just patched instead of the run's own
\* inputs and outputs
RunResumeReadsHistory(i, O) ==
    /\ inv[i].pc = "awaiting"
    /\ LET mappedOutputs == MapOutputs(outputMap, O)
           rc == RecordCall(calls, [inputs |-> <<>>, outputs |-> <<mappedOutputs>>], TRUE)
           last == rc.calls[Len(rc.calls)]
       IN  /\ calls' = rc.calls
           /\ inv' = [inv EXCEPT ![i] =
                        [@ EXCEPT !.pc = "done", !.outputs = O,
                                  !.result = Postprocess(last.inputs[1], last.outputs[1])]]
    /\ ret' = Ret("run", FALSE, FALSE, "promise", <<>>, <<>>)
    /\ UNCHANGED <<name, outputMap, inputsSchema, outputsSchema>>

\* the second recordCall without its updatePrev argument: the outputs go into
\* a new record
RunResumeAppends(i, O) ==
    /\ inv[i].pc = "awaiting"
    /\ LET mappedOutputs == MapOutputs(outputMap, O)
           rc == RecordCall(calls, [inputs |-> <<>>, outputs |-> <<mappedOutputs>>], FALSE)
       IN  /\ calls' = rc.calls
           /\ inv' = [inv EXCEPT ![i] =
                        [@ EXCEPT !.pc = "done", !.outputs = O,
                                  !.result = Postprocess(inv[i].inputs, mappedOutputs)]]
    /\ ret' = Ret("run", FALSE, FALSE, "promise", <<>>, <<>>)
    /\ UNCHANGED <<name, outputMap, inputsSchema, outputsSchema>>

\* run, from the point this._run(...) resolved with O to the return
RunResume(i, O) ==
    /\ inv[i].pc = "awaiting"
    /\ LET mappedOutputs == MapOutputs(outputMap, O)
           rc == RecordCall(calls, [inputs |-> <<>>, outputs |-> <<mappedOutputs>>], TRUE)
       IN  /\ calls' = rc.calls
           /\ inv' = [inv EXCEPT ![i] =
                        IF rc.threw
                        THEN [@ EXCEPT !.pc = "failed", !.outputs = O]
                        ELSE [@ EXCEPT !.pc = "done", !.outputs = O,
                                       !.result = Postprocess(inv[i].inputs, mappedOutputs)]]
    /\ ret' = Ret("run", FALSE, FALSE, "promise", <<>>, <<>>)
    /\ UNCHANGED <<name, outputMap, inputsSchema, outputsSchema>>

\* a failed delegated computation still patches the last record, with an
\* empty outputs record
RunFailRecordsOutputs(i) ==
    /\ inv[i].pc = "awaiting"
    /\ inv' = [inv EXCEPT ![i].pc = "failed"]
    /\ calls' = [calls EXCEPT ![Len(calls)].outputs = << <<>> >>]
    /\ ret' = Ret("run", FALSE, FALSE, "promise", <<>>, <<>>)
    /\ UNCHANGED <<name, outputMap, inputsSchema, outputsSchema>>

\* run, when this._run(...) throws or rejects: the error reaches the caller
RunFail(i) ==
    /\ inv[i].pc = "awaiting"
    /\ inv' = [inv EXCEPT ![i].pc = "failed"]
    /\ ret' = Ret("run", FALSE, FALSE, "promise", <<>>, <<>>)
    /\ UNCHANGED <<name, outputMap, inputsSchema, outputsSchema, calls>>

\* recordCall(args, updatePrev) called on its own (it is protected: a concrete
\* step may call it)
CallArgs ==
    {[inputs |-> i, outputs |-> o] :
        i \in {<<>>} \cup {<<I>> : I \in GenInputs},
        o \in {<<>>} \cup {<<O>> : O \in GenOutputs}}

RecordCallOp(args, updatePrev) ==
    /\ updatePrev \/ Len(calls) < MaxCalls
    /\ LET rc == RecordCall(calls, args, updatePrev)
       IN  /\ calls' = rc.calls
           /\ ret' = [Ret("recordCall", updatePrev, rc.threw,
                          IF rc.threw THEN "error" ELSE "undefined", <<>>, <<>>)
                        EXCEPT !.args = args]
    /\ UNCHANGED <<name, outputMap, inputsSchema, outputsSchema, inv>>

\* ---- serialize -------------------------------------------------------------
\* the values held by the object serialize returns
Undefined == [tag |-> "undefined", num |-> 0, call |-> EmptyCall]
Num(n) == [tag |-> "num", num |-> n, call |-> EmptyCall]
CallVal(c) == [tag |-> "call", num |-> 0, call |-> c]

\* what _serialize() of a concrete step may return
MetaKeys == {"model", "call"}
Metas == Records(MetaKeys, {1}, 1)

MetaEntries(meta) == [i \in DOMAIN meta |-> <<meta[i][1], Num(meta[i][2])>>]

\* !this.calls : calls is an array, and an array is truthy whatever its length
Not(cs) == FALSE

\* this.calls[this.calls.length - 1]
LastCall(cs) == IF Len(cs) = 0 THEN Undefined ELSE CallVal(cs[Len(cs)])

\* { ...this._serialize(), call }: the call record shadows the metadata
SerializeCallWins(cs, meta) ==
    IF Not(cs) THEN <<>>
    ELSE Spread(MetaEntries(meta), << <<"call", LastCall(cs)>> >>)

SerializeResult(cs, meta) ==
    IF Not(cs) THEN <<>>
    ELSE Spread(<< <<"call", LastCall(cs)>> >>, MetaEntries(meta))

\* serialize takes the record it reports off the history
SerializePops(meta) ==
    /\ ret' = Ret("serialize", FALSE, FALSE, "object", meta,
                SerializeResult(calls, meta))
    /\ calls' = IF calls = <<>> THEN calls ELSE SubSeq(calls, 1, Len(calls) - 1)
    /\ UNCHANGED <<name, outputMap, inputsSchema, outputsSchema, inv>>

Serialize(meta) ==
    /\ ret' = Ret("serialize", FALSE, FALSE, "object", meta,
                SerializeResult(calls, meta))
    /\ UNCHANGED <<name, outputMap, inputsSchema, outputsSchema, calls, inv>>

\* ---- specifications --------------------------------------------------------
NoneAwaiting == \A j \in Runs : inv[j].pc # "awaiting"

\* every operation, run invocations may overlap
Next ==
    \/ \E i \in Runs, I \in GenInputs : RunStart(i, I)
    \/ \E i \in Runs, O \in GenOutputs : RunResume(i, O)
    \/ \E i \in Runs : RunFail(i)
    \/ \E args \in CallArgs, updatePrev \in BOOLEAN : RecordCallOp(args, updatePrev)
    \/ \E meta \in Metas : Serialize(meta)
    \/ \E schema \in GenSchemas : Inputs(schema)
    \/ \E schema \in GenSchemas : Outputs(schema)

Spec == Init /\ [][Next]_vars

\* the history is written by run alone; invocations may overlap
NextRuns ==
    \/ \E i \in Runs, I \in RunInputs : RunStart(i, I)
    \/ \E i \in Runs, O \in RunOutputs : RunResume(i, O)
    \/ \E i \in Runs : RunFail(i)
    \/ \E meta \in Metas : Serialize(meta)

SpecRuns == Init /\ [][NextRuns]_vars

\* the history is written by run alone; an invocation starts only when no
\* other is suspended in its delegated computation
NextSeq ==
    \/ \E i \in Runs, I \in RunInputs : NoneAwaiting /\ RunStart(i, I)
    \/ \E i \in Runs, O \in RunOutputs : RunResume(i, O)
    \/ \E i \in Runs : RunFail(i)
    \/ \E meta \in Metas : Serialize(meta)
    \/ \E schema \in Schemas : Inputs(schema)
    \/ \E schema \in Schemas : Outputs(schema)

SpecSeq == Init /\ [][NextSeq]_vars

\* one run on a fresh step, over all records and output maps
NextOne ==
    \/ \E I \in InputRecords : RunStart(1, I)
    \/ \E O \in OutputRecords : RunResume(1, O)
    \/ RunFail(1)

SpecOne == InitOne /\ [][NextOne]_vars

\* ---- properties ------------------------------------------------------------
AsMap(rec) == [k \in KeysOf(rec) |-> Get(rec, k)]

DistinctKeys(rec) == \A i, j \in DOMAIN rec : i # j => rec[i][1] # rec[j][1]

\* the record run i appended, and the record it has when patched with its own
\* mapped outputs
InputsOnly(i) == [inputs |-> <<inv[i].args>>, outputs |-> <<>>]
Completed(i) == [inputs |-> <<inv[i].args>>,
                 outputs |-> <<MapOutputs(outputMap, inv[i].outputs)>>]

\* C1: a run that got input record I and whose delegated computation returned
\* O returns a record whose keys are keys(I) union keys(mapOutputs(O)); a key
\* of mapOutputs(O) carries the mapped-output value, any other key carries I's
\* value; with no output map the result is the merge of I and the raw O with
\* O's fields winning.
C1_RunResultIsMerge ==
    \A i \in Runs : inv[i].pc = "done" =>
        LET I == inv[i].args
            O == inv[i].outputs
            M == MapOutputs(outputMap, O)
            R == inv[i].result
        IN  /\ DistinctKeys(R)
            /\ KeysOf(R) = KeysOf(I) \cup KeysOf(M)
            /\ \A k \in KeysOf(M) : Get(R, k) = Get(M, k)
            /\ \A k \in KeysOf(I) \ KeysOf(M) : Get(R, k) = Get(I, k)
            /\ ~outputMap.defined =>
                  AsMap(R) = [k \in KeysOf(I) \cup KeysOf(O) |->
                                IF k \in KeysOf(O) THEN Get(O, k) ELSE Get(I, k)]

\* a finished run whose input and mapped output share a key with different
\* values, on a step with an output map
C1_Witness ==
    /\ outputMap.defined
    /\ inv[1].pc = "done"
    /\ \E k \in KeysOf(inv[1].args) \cap KeysOf(MapOutputs(outputMap, inv[1].outputs)) :
          /\ k \notin KeysOf(inv[1].outputs)
          /\ Get(inv[1].args, k) # Get(inv[1].result, k)

\* C2: after N non-overlapping runs that all succeeded the history has exactly
\* N records, and record i holds the raw inputs and the mapped outputs of the
\* i-th run.
C2_HistoryMatchesRuns ==
    (\A i \in Runs : inv[i].pc \in {"idle", "done"}) =>
        /\ Len(calls) = Cardinality({i \in Runs : inv[i].pc = "done"})
        /\ \A i \in 1..Len(calls) : calls[i] = Completed(i)

\* two finished runs with different inputs and different outputs, remapped
C2_Witness ==
    /\ inv[1].pc = "done" /\ inv[2].pc = "done"
    /\ inv[1].args # inv[2].args
    /\ inv[1].outputs # inv[2].outputs
    /\ outputMap.defined
    /\ calls[1].outputs # <<inv[1].outputs>>

\* C3: a run appends exactly one inputs-only record to the N records it finds;
\* when its delegated computation fails, nothing is patched: the history is
\* left with those N+1 records, the last being the inputs-only record of the
\* failed run, and the run returns no result.
C3_FailedRunLeavesInputsOnly ==
    [][\A i \in Runs :
        /\ (inv[i].pc = "idle" /\ inv'[i].pc = "awaiting") =>
              calls' = Append(calls, InputsOnly(i)')
        /\ (inv[i].pc = "awaiting" /\ inv'[i].pc = "failed") =>
              /\ calls' = calls
              /\ calls'[Len(calls')] = InputsOnly(i)
              /\ inv'[i].result = <<>>]_vars

\* a run failed after an earlier run succeeded
C3_Witness ==
    /\ inv[1].pc = "done" /\ inv[2].pc = "failed"
    /\ Len(calls) = 2
    /\ calls[1] = Completed(1)
    /\ calls[2] = InputsOnly(2)

\* C4: recordCall in update mode on an empty history throws, whatever its
\* argument, and leaves the history empty.
C4_UpdateOnEmptyThrows ==
    [][(calls = <<>> /\ ret'.op = "recordCall" /\ ret'.updatePrev) =>
          (ret'.threw /\ calls' = <<>>)]_vars

C4_Witness ==
    /\ calls = <<>>
    /\ ret.op = "recordCall" /\ ret.updatePrev /\ ret.threw

\* C5: serialize() on a step with an empty call history returns a record with
\* no keys at all.
C5_SerializeEmptyHistory ==
    (ret.op = "serialize" /\ calls = <<>>) => ret.ser = <<>>

\* C6 as stated: with a non-empty history serialize() returns the last call
\* record under 'call' together with every metadata field of _serialize(),
\* whatever that metadata is; after one successful run 'call' holds that run's
\* inputs and mapped outputs.
C6_SerializeCallIsLast ==
    (ret.op = "serialize" /\ calls # <<>>) =>
        /\ "call" \in KeysOf(ret.ser)
        /\ Get(ret.ser, "call") = CallVal(calls[Len(calls)])
        /\ \A k \in KeysOf(ret.meta) :
              k \in KeysOf(ret.ser) /\ Get(ret.ser, k) = Num(Get(ret.meta, k))
        /\ (Len(calls) = 1 /\ inv[1].pc = "done") =>
              Get(ret.ser, "call") = CallVal(Completed(1))

\* C6 amended: the result has the key 'call' and the metadata's keys; every
\* metadata field carries the metadata's value, 'call' included; when the
\* metadata has no 'call' field, 'call' is the last call record in its current
\* state, which after one successful run holds that run's inputs and mapped
\* outputs.
C6_SerializeCallUnlessShadowed ==
    (ret.op = "serialize" /\ calls # <<>>) =>
        /\ DistinctKeys(ret.ser)
        /\ KeysOf(ret.ser) = {"call"} \cup KeysOf(ret.meta)
        /\ \A k \in KeysOf(ret.meta) : Get(ret.ser, k) = Num(Get(ret.meta, k))
        /\ "call" \notin KeysOf(ret.meta) =>
              /\ Get(ret.ser, "call") = CallVal(calls[Len(calls)])
              /\ (Len(calls) = 1 /\ inv[1].pc = "done") =>
                    Get(ret.ser, "call") = CallVal(Completed(1))

\* serialize() after one successful run, on a step exposing metadata
C6_Witness ==
    /\ ret.op = "serialize"
    /\ Len(calls) = 1 /\ inv[1].pc = "done"
    /\ "model" \in KeysOf(ret.meta)
    /\ Get(ret.ser, "call").call.outputs # <<>>

\* C7: whatever the operation, the history never gets shorter, every record
\* but the last stays what and where it was, and the last record stays in
\* place and loses no field.
C7_HistoryOnlyGrows ==
    [][/\ Len(calls') >= Len(calls)
       /\ \A k \in 1..Len(calls) :
             /\ k < Len(calls) => calls'[k] = calls[k]
             /\ calls[k].inputs # <<>> => calls'[k].inputs # <<>>
             /\ calls[k].outputs # <<>> => calls'[k].outputs # <<>>]_vars

\* an update-mode recordCall on a history of two different records
C7_Witness ==
    /\ Len(calls) >= 2
    /\ calls[1] # calls[2]
    /\ ret.op = "recordCall" /\ ret.updatePrev /\ ~ret.threw

\* C8 as stated: when the output map maps key a to x and the delegated output
\* has a with value v, the result has x with value v and has no a unless
\* x = a; a delegated output key the map does not mention is in the result
\* under its own name with its own value.
C8_MappedKeyRenamed ==
    \A i \in Runs : (inv[i].pc = "done" /\ outputMap.defined) =>
        LET O == inv[i].outputs
            R == inv[i].result
        IN  /\ \A a \in DOMAIN outputMap.map \cap KeysOf(O) :
                  LET x == outputMap.map[a]
                  IN  /\ x \in KeysOf(R)
                      /\ Get(R, x) = Get(O, a)
                      /\ x # a => a \notin KeysOf(R)
            /\ \A k \in KeysOf(O) \ DOMAIN outputMap.map :
                  k \in KeysOf(R) /\ Get(R, k) = Get(O, k)

\* the name a delegated output key is written under: its non-empty target
\* name; its own name when the map gives it the empty string or does not
\* mention it; for an unmentioned key that names a property the map inherits
\* (constructor), the inherited value turned into a property name
WrittenUnder(k) ==
    IF k \in DOMAIN outputMap.map
    THEN IF outputMap.map[k] # "" THEN outputMap.map[k] ELSE k
    ELSE IF k \in InheritedKeys THEN ObjectCtorKey ELSE k

\* C8 amended: every delegated output key is in the result under the name it
\* is written under, with its own value unless a later key of the delegated
\* output is written under the same name; a delegated output key written
\* under another name is in the result only if the input record has it or
\* another delegated output key is written under it.
C8_MappedKeyRenamedLastWins ==
    \A i \in Runs : (inv[i].pc = "done" /\ outputMap.defined) =>
        LET I == inv[i].args
            O == inv[i].outputs
            R == inv[i].result
        IN  /\ \A n \in DOMAIN O :
                  /\ WrittenUnder(O[n][1]) \in KeysOf(R)
                  /\ (\A m \in DOMAIN O :
                          m > n => WrittenUnder(O[m][1]) # WrittenUnder(O[n][1]))
                        => Get(R, WrittenUnder(O[n][1])) = O[n][2]
            /\ \A a \in KeysOf(O) :
                  WrittenUnder(a) # a =>
                     (a \in KeysOf(R) <=>
                        \/ a \in KeysOf(I)
                        \/ \E b \in KeysOf(O) : WrittenUnder(b) = a)

\* the scenario of the spec: a mapped to x, the result has x and no a
C8_Witness ==
    /\ outputMap.defined
    /\ inv[1].pc = "done"
    /\ "a" \in DOMAIN outputMap.map /\ outputMap.map["a"] = "x"
    /\ "a" \in KeysOf(inv[1].outputs)
    /\ "a" \notin KeysOf(inv[1].result)
    /\ "x" \notin KeysOf(inv[1].args)
    /\ Get(inv[1].result, "x") = Get(inv[1].outputs, "a")

\* C9: when run j resumes after a later run has appended its record, j's
\* outputs are written to the last record, which is the record of the latest
\* run, and j's own record is left as it was.
C9_PatchLandsOnLastRecord ==
    [][\A j \in Runs :
        (inv[j].pc = "awaiting" /\ inv'[j].pc = "done" /\ Len(calls) > j) =>
            /\ calls[j].inputs = <<inv[j].args>>
            /\ calls'[j] = calls[j]
            /\ Len(calls') = Len(calls)
            /\ calls'[Len(calls)] =
                  [inputs |-> <<inv[Len(calls)].args>>,
                   outputs |-> <<MapOutputs(outputMap, inv'[j].outputs)>>]]_vars

\* both runs succeeded; record 2 holds the inputs of run 2 and the outputs of
\* run 1, record 1 has no outputs
C9_Witness ==
    /\ inv[1].pc = "done" /\ inv[2].pc = "done"
    /\ inv[1].args # inv[2].args
    /\ inv[1].outputs # inv[2].outputs
    /\ calls[1] = InputsOnly(1)
    /\ calls[2] = [inputs |-> <<inv[2].args>>,
                   outputs |-> <<MapOutputs(outputMap, inv[1].outputs)>>]

\* C10: no operation changes the name or the output map.
C10_NameAndOutputMapFixed ==
    [][name' = name /\ outputMap' = outputMap]_vars

\* a step with an output map after a run, both setters and a serialize
C10_Witness ==
    /\ outputMap.defined /\ DOMAIN outputMap.map # {}
    /\ inv[1].pc = "done"
    /\ inputsSchema # "undefined" /\ outputsSchema # "undefined"
    /\ Len(calls) >= 2
    /\ ret.op = "serialize"

\* C11: inputs(schema) makes schema the input schema, whatever it was before,
\* returns the step and leaves the output schema, the name, the output map
\* and the history alone; outputs(schema) does the same for the output schema.
C11_SettersReplaceSchema ==
    [][/\ ret'.op = "inputs" =>
             /\ inputsSchema' = ret'.schema
             /\ ret'.value = "this" /\ ~ret'.threw
             /\ UNCHANGED <<outputsSchema, name, outputMap, calls>>
       /\ ret'.op = "outputs" =>
             /\ outputsSchema' = ret'.schema
             /\ ret'.value = "this" /\ ~ret'.threw
             /\ UNCHANGED <<inputsSchema, name, outputMap, calls>>]_vars

\* inputs("s2") on a step that has a history and another output schema
C11_Witness ==
    /\ ret.op = "inputs" /\ ret.schema = "s2"
    /\ inputsSchema = "s2" /\ outputsSchema = "s1"
    /\ calls # <<>>

\* the name C12 and C13 say a delegated output key is written under: the
\* target name the output map declares for it, whatever string that is, else
\* the key itself
DeclaredName(k) ==
    IF k \in DOMAIN outputMap.map THEN outputMap.map[k] ELSE k

\* the mapped outputs that run i recorded
RecordedOutputs(i) == calls[i].outputs[1]

\* C12: with no output map mapOutputs returns the delegated output unchanged;
\* with one, its result has exactly the declared names of the delegated
\* output's keys, and a key that shares its declared name with no other key
\* has its value there.
C12_MapOutputsRenames ==
    \A i \in Runs : (inv[i].pc = "done" /\ Len(calls) >= i) =>
        LET O == inv[i].outputs
            M == RecordedOutputs(i)
        IN  IF ~outputMap.defined THEN M = O
            ELSE /\ DistinctKeys(M)
                 /\ KeysOf(M) = {DeclaredName(k) : k \in KeysOf(O)}
                 /\ \A n \in DOMAIN O :
                       (\A m \in DOMAIN O :
                           m # n => DeclaredName(O[m][1]) # DeclaredName(O[n][1]))
                         => Get(M, DeclaredName(O[n][1])) = O[n][2]

\* C13: when two or more keys of the delegated output have the same declared
\* name, the mapped record has that name once, with the value of the last of
\* them in iteration order.
C13_CollisionLastWins ==
    \A i \in Runs : (inv[i].pc = "done" /\ Len(calls) >= i /\ outputMap.defined) =>
        LET O == inv[i].outputs
            M == RecordedOutputs(i)
        IN  \A n \in DOMAIN O :
               LET same == {m \in DOMAIN O :
                              DeclaredName(O[m][1]) = DeclaredName(O[n][1])}
               IN  Cardinality(same) >= 2 =>
                      /\ DistinctKeys(M)
                      /\ DeclaredName(O[n][1]) \in KeysOf(M)
                      /\ Get(M, DeclaredName(O[n][1])) =
                            O[CHOOSE m \in same : \A l \in same : l <= m][2]

\* C14: while a run is suspended in its delegated computation the last record
\* of the history is its inputs-only record; the outputs of a record change
\* only in the step in which a run resumes from its delegated computation,
\* and that step patches this same last record and yields the run's result.
C14_PhasesInOrder ==
    [][/\ \A i \in Runs :
            /\ inv'[i].pc = "awaiting" =>
                  (calls' # <<>> /\ calls'[Len(calls')] = InputsOnly(i)')
            /\ inv[i].pc = "idle" => inv'[i].pc \in {"idle", "awaiting"}
            /\ (inv[i].pc = "awaiting" /\ inv'[i].pc = "done") =>
                  /\ calls # <<>>
                  /\ calls[Len(calls)] = InputsOnly(i)
                  /\ calls' = [calls EXCEPT ![Len(calls)] = Completed(i)']
                  /\ inv'[i].result =
                        Spread(inv[i].args, MapOutputs(outputMap, inv'[i].outputs))
       /\ \A k \in 1..Len(calls) :
            (Len(calls') < k \/ calls'[k].outputs # calls[k].outputs) =>
                \E i \in Runs : inv[i].pc = "awaiting" /\ inv'[i].pc = "done"]_vars

\* the second run is suspended after the first one finished
C14_Witness ==
    /\ inv[1].pc = "done" /\ inv[2].pc = "awaiting"
    /\ Len(calls) = 2
    /\ calls[1] = Completed(1)
    /\ calls[2] = InputsOnly(2)

\* C15: update-mode recordCall on a non-empty history keeps the length and
\* every record but the last, and makes each field of the last record the
\* given field if one is given, the old field otherwise; append-mode
\* recordCall adds the given fields as one new last record.
C15_RecordCallFrame ==
    [][(ret'.op = "recordCall" /\ ~ret'.threw) =>
          IF ret'.updatePrev
          THEN /\ calls # <<>>
               /\ Len(calls') = Len(calls)
               /\ \A k \in 1..(Len(calls) - 1) : calls'[k] = calls[k]
               /\ calls'[Len(calls)].inputs =
                     IF ret'.args.inputs # <<>> THEN ret'.args.inputs
                     ELSE calls[Len(calls)].inputs
               /\ calls'[Len(calls)].outputs =
                     IF ret'.args.outputs # <<>> THEN ret'.args.outputs
                     ELSE calls[Len(calls)].outputs
          ELSE calls' = Append(calls, ret'.args)]_vars

\* an update that gave outputs to a record that already had other outputs,
\* and kept its inputs
C15_Witness ==
    /\ ret.op = "recordCall" /\ ret.updatePrev /\ ~ret.threw
    /\ Len(calls) >= 2
    /\ ret.args.inputs = <<>> /\ ret.args.outputs # <<>>
    /\ calls[Len(calls)].outputs = ret.args.outputs
    /\ calls[Len(calls)].inputs # <<>>
    /\ inv[1].pc = "done"
    /\ Completed(1).outputs # ret.args.outputs
    /\ Len(calls) = 2 /\ calls[1].inputs = <<>>

\* the merge of a run's raw inputs and its mapped outputs, as a map from key
\* to value, the mapped outputs winning
MergedAlone(i) ==
    LET I == inv[i].args
        M == MapOutputs(outputMap, inv[i].outputs)
    IN  [k \in KeysOf(I) \cup KeysOf(M) |->
            IF k \in KeysOf(M) THEN Get(M, k) ELSE Get(I, k)]

C17_NoAppendLost ==
    /\ Len(calls) = Cardinality({i \in Runs : inv[i].pc # "idle"})
    /\ Cardinality({k \in 1..Len(calls) : calls[k].outputs # <<>>})
          <= Cardinality({i \in Runs : inv[i].pc = "done"})

\* the second run returned while the first is still suspended
C17_Witness ==
    /\ inv[1].pc = "awaiting" /\ inv[2].pc = "done"
    /\ Len(calls) = 2
    /\ calls[1].outputs = <<>> /\ calls[2].outputs # <<>>

\* C18: whatever the interleaving, a run returns the merge of its own raw
\* inputs and its own mapped outputs.
C18_ResultIsOwnMerge ==
    \A i \in Runs : inv[i].pc = "done" =>
        /\ DistinctKeys(inv[i].result)
        /\ AsMap(inv[i].result) = MergedAlone(i)

\* two overlapping runs returned different results although the record of
\* the second holds the outputs of the first
C18_Witness ==
    /\ inv[1].pc = "done" /\ inv[2].pc = "done"
    /\ inv[1].result # inv[2].result
    /\ inv[1].args # inv[2].args
    /\ calls[2].outputs # Completed(2).outputs
    /\ calls[2].outputs = Completed(1).outputs
    /\ KeysOf(inv[1].args) \subseteq KeysOf(inv[1].result)
    /\ Get(inv[1].result, "a") = Get(inv[1].args, "a")

\* C19: no step changes a record that is not the last, and the record of a
\* failed run stays its inputs-only record.
C19_DanglingRecordStays ==
    [][/\ \A k \in 1..(Len(calls) - 1) : Len(calls') >= k /\ calls'[k] = calls[k]
       /\ \A i \in Runs : inv[i].pc = "failed" =>
             /\ Len(calls) >= i /\ Len(calls') >= i
             /\ calls[i] = InputsOnly(i)
             /\ calls'[i] = calls[i]]_vars

\* a run finished after an earlier run failed
C19_Witness ==
    /\ inv[1].pc = "failed" /\ inv[2].pc = "done"
    /\ Len(calls) = 2
    /\ calls[1] = InputsOnly(1)
    /\ calls[2] = Completed(2)
    /\ inv[1].args # inv[2].args

\* C20 as stated: serialize() changes neither the history nor the name, the
\* output map or the schemas, and while a run is suspended it reports that
\* run's inputs-only record under 'call'.
C20_SerializeReadOnly ==
    [][ret'.op = "serialize" =>
          /\ UNCHANGED <<calls, name, outputMap, inputsSchema, outputsSchema, inv>>
          /\ \A i \in Runs : inv[i].pc = "awaiting" =>
                /\ "call" \in KeysOf(ret'.ser)
                /\ Get(ret'.ser, "call") = CallVal(InputsOnly(i))]_vars

\* C20 amended: serialize() changes neither the history nor the name, the
\* output map or the schemas; while a run is suspended its result has the key
\* 'call', holding that run's inputs-only record when the metadata has no
\* 'call' field and the metadata's value when it has one.
C20_SerializeReadOnlyUnlessShadowed ==
    [][ret'.op = "serialize" =>
          /\ UNCHANGED <<calls, name, outputMap, inputsSchema, outputsSchema, inv>>
          /\ \A i \in Runs : inv[i].pc = "awaiting" =>
                /\ "call" \in KeysOf(ret'.ser)
                /\ Get(ret'.ser, "call") =
                      IF "call" \in KeysOf(ret'.meta)
                      THEN Num(Get(ret'.meta, "call"))
                      ELSE CallVal(InputsOnly(i))]_vars

\* serialize() while the second run is suspended
C20_Witness ==
    /\ ret.op = "serialize"
    /\ inv[1].pc = "done" /\ inv[2].pc = "awaiting"
    /\ Get(ret.ser, "call") = CallVal(InputsOnly(2))
    /\ Len(calls) = 2

====
